---- MODULE Spec2Model ----
(***************************************************************************)
(* Model of Mlflow_Labs/seving.py: a script that logs one trained model    *)
(* six times under one run, each time with a different way of declaring    *)
(* pip requirements, downloads the persisted requirements.txt (and         *)
(* constraints.txt) and asserts on the set of lines it read.               *)
(*                                                                         *)
(* A text is a sequence of characters.  A requirement string whose inner   *)
(* characters never matter (f"xgboost=={xgb.__version__}") is one          *)
(* character-like token; the line terminators are separate characters.     *)
(* A line is a text without terminators, a manifest is a text.             *)
(***************************************************************************)
EXTENDS Integers, Sequences, FiniteSets

VARIABLES
    pc,            \* the statement main() executes next
    scen,          \* which of the six scenarios (1..6) main() is in
    artifact_path, \* main's local variable artifact_path
    f,             \* which temporary file main's local f is bound to (0: none)
    tmp,           \* the two temporary files: state, write buffer, bytes on disk
    store,         \* artifact store of the run: artifact path -> logged record
    pip_reqs,      \* main's local pip_reqs (a set of lines)
    pip_cons,      \* main's local pip_cons (a set of lines)
    exc,           \* the exception propagating out of main, "none" if none
    runStatus,     \* status of the run opened by mlflow.start_run()
    exitCode,      \* exit code of the process, -1 while it runs
    events,        \* history: the logging and download calls made so far
    passed,        \* history: scenarios whose assertions all passed
    defaults,      \* the default requirement lines the library infers
    trailingNL     \* whether the library ends a manifest with a newline

vars == <<pc, scen, artifact_path, f, tmp, store, pip_reqs, pip_cons, exc,
          runStatus, exitCode, events, passed, defaults, trailingNL>>

(***************************************************************************)
(* Bounds.                                                                 *)
(***************************************************************************)
\* longest manifest text the verifier is tried on (specification VerifierSpec)
MaxLen == 4

(***************************************************************************)
(* Characters and lines.                                                   *)
(***************************************************************************)
LF == "\n"
CR == "\r"
FF == "\f"

\* the line boundaries str.splitlines() knows, among the characters modelled
Terminators == {LF, CR, FF}

\* main(): xgb_req = f"xgboost=={xgb.__version__}"
xgb_req == <<"xgboost==X">>

\* main(): sklearn_req = f"scikit-learn=={sklearn.__version__}"
sklearn_req == <<"scikit-learn==S">>

\* the literal "-c constraints.txt" of the last scenario's assertion
canonical_c == <<"-c constraints.txt">>

\* some other package the library may infer as a default
other_req == <<"numpy==N">>

(***************************************************************************)
(* Reading a text file: read_lines.                                        *)
(***************************************************************************)
Range(s) == {s[i] : i \in 1..Len(s)}

RECURSIVE Universal(_, _)
\* open(path) in text mode: reading translates "\r\n" and "\r" to "\n"
Universal(t, i) ==
    IF i > Len(t) THEN <<>>
    ELSE IF t[i] = CR
         THEN <<LF>> \o Universal(t, IF i < Len(t) /\ t[i + 1] = LF
                                      THEN i + 2 ELSE i + 1)
         ELSE <<t[i]>> \o Universal(t, i + 1)

RECURSIVE SplitFrom(_, _, _)
\* str.splitlines() from position i on, cur being the line read so far: a
\* boundary ends the line, empty or not; what follows the last boundary is
\* a line only when it is not empty
SplitFrom(t, i, cur) ==
    IF i > Len(t) THEN (IF cur = <<>> THEN <<>> ELSE <<cur>>)
    ELSE IF t[i] \in Terminators
         THEN <<cur>> \o SplitFrom(t, IF t[i] = CR /\ i < Len(t) /\ t[i + 1] = LF
                                      THEN i + 2 ELSE i + 1, <<>>)
         ELSE SplitFrom(t, i + 1, Append(cur, t[i]))

\* a variant of splitlines that behaves like split("\n"): it also returns
\* the empty rest after a final boundary
SplitKeepLast(t) ==
    IF t # <<>> /\ t[Len(t)] \in Terminators
    THEN Append(SplitFrom(t, 1, <<>>), <<>>)
    ELSE SplitFrom(t, 1, <<>>)

\* str.splitlines()
splitlines(t) == SplitFrom(t, 1, <<>>)

\* read_lines(path), given the bytes of the file at path
read_lines(content) == splitlines(Universal(content, 1))

(***************************************************************************)
(* The temporary files of main().                                          *)
(***************************************************************************)
Files == {1, 2}

\* f.name of the two NamedTemporaryFile objects (suffixes of lines 79, 104)
TmpName(i) == IF i = 1 THEN "tmp1.requirements.txt" ELSE "tmp2.constraints.txt"

NoFile == [state |-> "none", buf |-> <<>>, disk |-> <<>>]

\* tempfile.NamedTemporaryFile("w", ...): a new empty file, open for writing
TmpCreated == [state |-> "open", buf |-> <<>>, disk |-> <<>>]

\* f.write(text): the text goes to the write buffer of the file object
TmpWritten(file, text) == [file EXCEPT !.buf = file.buf \o text]

\* a flush that forgets to push the buffer to disk
TmpNotFlushed(file) == file

\* f.flush(): the buffer goes to disk
TmpFlushed(file) == [file EXCEPT !.disk = file.disk \o file.buf, !.buf = <<>>]

\* leaving the with block: the file is closed and deleted
TmpRemoved(file) == [state |-> "removed", buf |-> <<>>, disk |-> <<>>]

(***************************************************************************)
(* The logging library (mlflow.xgboost.log_model) and the artifact store.  *)
(* Their code is not part of the repository: the resolver follows the      *)
(* contract the script demonstrates.  What the library infers as default   *)
(* requirements and whether it ends a manifest with a newline are unknown  *)
(* and left open (chosen in Init).                                         *)
(***************************************************************************)
None == [kind |-> "none"]
ListValue(items) == [kind |-> "list", items |-> items]

PathValue(name) == [kind |-> "path", path |-> name]

\* the library opening a file by name: only an existing file can be read
FileReadable(name) == \E i \in Files : TmpName(i) = name /\ tmp[i].state = "open"

FileContent(name) == tmp[CHOOSE i \in Files : TmpName(i) = name].disk

\* the requirement lines of a file: its non-empty lines
FileLines(name) == SelectSeq(read_lines(FileContent(name)), LAMBDA l : l # <<>>)

RECURSIVE ParseItems(_)
\* a list of requirement strings: "-r <path>" is replaced by the lines of
\* that file, "-c <path>" sends the lines of that file to the constraints
ParseItems(items) ==
    IF items = <<>> THEN [ok |-> TRUE, reqs |-> <<>>, cons |-> <<>>]
    ELSE LET item == Head(items)
             rest == ParseItems(Tail(items))
             isR  == Len(item) = 2 /\ item[1] = "-r "
             isC  == Len(item) = 2 /\ item[1] = "-c "
         IN  IF isR \/ isC
             THEN IF ~FileReadable(item[2])
                  THEN [ok |-> FALSE, reqs |-> <<>>, cons |-> <<>>]
                  ELSE [ok   |-> rest.ok,
                        reqs |-> (IF isR THEN FileLines(item[2]) ELSE <<>>)
                                 \o rest.reqs,
                        cons |-> (IF isC THEN FileLines(item[2]) ELSE <<>>)
                                 \o rest.cons]
             ELSE [ok |-> rest.ok, reqs |-> <<item>> \o rest.reqs,
                   cons |-> rest.cons]

\* a pip_requirements / extra_pip_requirements value: a path string is read
\* as a requirements file, a list is parsed item by item
ParseValue(v) ==
    IF v.kind = "path"
    THEN ParseItems(<<(<<"-r ", v.path>>)>>)
    ELSE IF v.kind = "list" THEN ParseItems(v.items)
    ELSE [ok |-> TRUE, reqs |-> <<>>, cons |-> <<>>]

\* The resolver: explicit list present -> it replaces the defaults; extra
\* list present -> defaults plus extra; neither -> the defaults only.
\* The line "-c constraints.txt" is added when there are constraints.
Resolve(pip, extra) ==
    LET parsed == IF pip.kind # "none" THEN ParseValue(pip) ELSE ParseValue(extra)
        base   == IF pip.kind # "none" THEN parsed.reqs
                  ELSE defaults \o parsed.reqs
        final  == IF parsed.cons # <<>> THEN Append(base, canonical_c)
                  ELSE base
    IN  [ok |-> parsed.ok, reqs |-> final, cons |-> parsed.cons]

RECURSIVE JoinLines(_)
\* "\n".join(lines)
JoinLines(lines) ==
    IF lines = <<>> THEN <<>>
    ELSE IF Len(lines) = 1 THEN lines[1]
    ELSE lines[1] \o <<LF>> \o JoinLines(Tail(lines))

\* a manifest file as the library writes it
ManifestText(lines) ==
    IF trailingNL /\ lines # <<>> THEN JoinLines(lines) \o <<LF>>
    ELSE JoinLines(lines)

Absent == [logged |-> FALSE, reqs |-> <<>>, hasCons |-> FALSE, cons |-> <<>>]

\* the record log_model persists: requirements.txt always, constraints.txt
\* only when there are constraints
LoggedRecord(r) ==
    [logged |-> TRUE, reqs |-> ManifestText(r.reqs),
     hasCons |-> r.cons # <<>>, cons |-> ManifestText(r.cons)]

(***************************************************************************)
(* main(): the six scenarios.                                              *)
(***************************************************************************)
Scenarios == 1..6

\* a script that reuses the artifact path "default" for the second scenario
ArtifactPathReused(s) ==
    CASE s = 1 -> "default"
      [] s = 2 -> "default"
      [] s = 3 -> "extra_pip_requirements"
      [] s = 4 -> "requirements_file_path"
      [] s = 5 -> "requirements_file_list"
      [] OTHER -> "constraints_file"

\* artifact_path = "..." of lines 50, 56, 68, 84, 93, 108
ArtifactPath(s) ==
    CASE s = 1 -> "default"
      [] s = 2 -> "pip_requirements"
      [] s = 3 -> "extra_pip_requirements"
      [] s = 4 -> "requirements_file_path"
      [] s = 5 -> "requirements_file_list"
      [] OTHER -> "constraints_file"

Paths == {ArtifactPath(s) : s \in Scenarios}

\* a script that passes the explicit list of scenario 2 in scenario 1 too
PipRequirementsInDefault(s, name) ==
    CASE s \in {1, 2} -> ListValue(<<sklearn_req>>)
      [] s = 4 -> PathValue(name)
      [] s = 5 -> ListValue(<<xgb_req, <<"-r ", name>> >>)
      [] s = 6 -> ListValue(<<xgb_req, <<"-c ", name>> >>)
      [] OTHER -> None

\* a script that forgets the pip_requirements argument in every call
PipRequirementsOmitted(s, name) == None

\* a script that writes "-r" where the last scenario means "-c"
PipRequirementsNoConstraint(s, name) ==
    CASE s = 2 -> ListValue(<<sklearn_req>>)
      [] s = 4 -> PathValue(name)
      [] s \in {5, 6} -> ListValue(<<xgb_req, <<"-r ", name>> >>)
      [] OTHER -> None

\* a script that leaves the "-r" entry out of the list of scenario 5
PipRequirementsNoFileRef(s, name) ==
    CASE s = 2 -> ListValue(<<sklearn_req>>)
      [] s = 4 -> PathValue(name)
      [] s = 5 -> ListValue(<<xgb_req>>)
      [] s = 6 -> ListValue(<<xgb_req, <<"-c ", name>> >>)
      [] OTHER -> None

\* the pip_requirements argument of the log_model call of scenario s, name
\* being f.name (lines 51, 58, 70, 87, 97, 112)
PipRequirements(s, name) ==
    CASE s = 2 -> ListValue(<<sklearn_req>>)
      [] s = 4 -> PathValue(name)
      [] s = 5 -> ListValue(<<xgb_req, <<"-r ", name>> >>)
      [] s = 6 -> ListValue(<<xgb_req, <<"-c ", name>> >>)
      [] OTHER -> None

\* a script that forgets the extra_pip_requirements argument
ExtraPipRequirementsOmitted(s) == None

\* the extra_pip_requirements argument of the call of scenario s (line 70)
ExtraPipRequirements(s) ==
    IF s = 3 THEN ListValue(<<sklearn_req>>) ELSE None

\* the assertion on pip_reqs of scenario s (lines 53, 61, 73, 90, 101, 118)
AssertReqs(s, reqs) ==
    CASE s = 1 -> xgb_req \in reqs
      [] s = 2 -> sklearn_req \in reqs
      [] s = 3 -> {xgb_req, sklearn_req} \subseteq reqs
      [] s = 4 -> sklearn_req \in reqs
      [] s = 5 -> {xgb_req, sklearn_req} \subseteq reqs
      [] OTHER -> {xgb_req, canonical_c} \subseteq reqs

\* the assertion on pip_cons (line 119)
AssertCons(cons) == cons = {sklearn_req}

\* whether the call of scenario s asks for the constraints too (line 116)
ReturnConstraints(s) == s = 6

\* the temporary file whose with block scenario s is in (lines 79, 104)
ScopeOf(s) == IF s \in {4, 5} THEN 1 ELSE IF s = 6 THEN 2 ELSE 0

\* an exception swallowed where it is raised: the script goes on
OnRaiseSwallowed(kind, cont) == [pc |-> cont, exc |-> "none"]

\* an exception raised while main() runs: nothing catches it, so control
\* leaves the enclosing with blocks, the temporary file's first
OnRaise(kind, cont) ==
    [pc  |-> IF f # 0 /\ tmp[f].state = "open" THEN "tmp_exit" ELSE "run_exit",
     exc |-> kind]

\* the exit status of the interpreter: 1 when an exception reached the top
ExitCode(e) == IF e = "none" THEN 0 ELSE 1

(***************************************************************************)
(* Initial states.                                                         *)
(***************************************************************************)
\* what the library may infer as the default requirements of the model
DefaultChoices ==
    {<<>>, <<xgb_req>>, <<other_req>>, <<sklearn_req>>,
     <<other_req, xgb_req>>, <<sklearn_req, xgb_req>>,
     <<other_req, sklearn_req>>, <<other_req, sklearn_req, xgb_req>>}

ScriptStart ==
    /\ pc = "start_run"
    /\ scen = 1
    /\ artifact_path = ""
    /\ f = 0
    /\ tmp = [i \in Files |-> NoFile]
    /\ pip_reqs = {}
    /\ pip_cons = {}
    /\ exc = "none"
    /\ runStatus = "none"
    /\ exitCode = -1
    /\ events = <<>>
    /\ passed = {}

Init ==
    /\ ScriptStart
    /\ store = [p \in Paths |-> Absent]
    /\ defaults \in DefaultChoices
    /\ trailingNL \in BOOLEAN

(***************************************************************************)
(* The statements of main().                                               *)
(***************************************************************************)
Locals == <<scen, artifact_path, f, pip_reqs, pip_cons>>
Library == <<defaults, trailingNL>>

\* control goes where r says: on to the next statement, or out with r.exc
Goto(r) == pc' = r.pc /\ exc' = r.exc

Continue(next) == [pc |-> next, exc |-> "none"]

\* line 46: with mlflow.start_run() as run.  When the call raises no run
\* was started and the with block is never entered.
StartRun ==
    /\ pc = "start_run"
    /\ \E apiOk \in BOOLEAN :
        IF apiOk
        THEN /\ runStatus' = "RUNNING"
             /\ Goto(Continue("log"))
        ELSE /\ Goto(OnRaise("MlflowException", "log"))
             /\ UNCHANGED runStatus
    /\ UNCHANGED <<Locals, tmp, store, exitCode, events, passed, Library>>

\* lines 50-51, 56-59, 68-71, 84-88, 93-99, 108-114: artifact_path = ...;
\* mlflow.xgboost.log_model(model, artifact_path, ...).  The call raises
\* when the library fails (apiOk) or cannot read a file it is referred to.
LogModel ==
    /\ pc = "log"
    /\ \E apiOk \in BOOLEAN :
        LET path == ArtifactPath(scen)
            name == IF f = 0 THEN "" ELSE TmpName(f)
            r    == Resolve(PipRequirements(scen, name), ExtraPipRequirements(scen))
        IN  /\ artifact_path' = path
            /\ IF apiOk /\ r.ok
               THEN /\ store' = [store EXCEPT ![path] = LoggedRecord(r)]
                    /\ events' = Append(events, [op |-> "log", path |-> path,
                                                 scen |-> scen])
                    /\ Goto(Continue("get"))
               ELSE /\ Goto(OnRaise("MlflowException", "get"))
                    /\ UNCHANGED <<store, events>>
    /\ UNCHANGED <<scen, f, pip_reqs, pip_cons, tmp, runStatus, exitCode,
                   passed, Library>>

\* lines 22-33, called at lines 52, 60, 72, 89, 100, 115:
\* get_pip_requirements(run_id, artifact_path, return_constraints).  A
\* download raises when the library fails or the artifact does not exist.
GetPipRequirements ==
    /\ pc = "get"
    /\ \E apiOk \in BOOLEAN :
        LET rec     == store[artifact_path]
            wantCon == ReturnConstraints(scen)
            found   == rec.logged /\ (wantCon => rec.hasCons)
        IN  IF apiOk /\ found
            THEN /\ pip_reqs' = Range(read_lines(rec.reqs))
                 /\ pip_cons' = IF wantCon THEN Range(read_lines(rec.cons))
                                ELSE pip_cons
                 /\ events' = Append(events, [op |-> "get", path |-> artifact_path,
                                              scen |-> scen])
                 /\ Goto(Continue("assert"))
            ELSE /\ Goto(OnRaise("MlflowException", "assert"))
                 /\ UNCHANGED <<pip_reqs, pip_cons, events>>
    /\ UNCHANGED <<scen, artifact_path, f, tmp, store, runStatus, exitCode,
                   passed, Library>>

\* the statement after the assertion on pip_reqs of scenario s
AfterAssert(s) ==
    CASE s \in {1, 2, 4} -> "log"
      [] s = 3 -> "tmp_open"
      [] s = 5 -> "tmp_exit"
      [] OTHER -> "assert_cons"

\* lines 53, 61, 73, 90, 101, 118: assert ... , pip_reqs
AssertRequirements ==
    /\ pc = "assert"
    /\ IF AssertReqs(scen, pip_reqs)
       THEN /\ Goto(Continue(AfterAssert(scen)))
            /\ passed' = IF scen = 6 THEN passed ELSE passed \cup {scen}
            /\ scen' = IF scen \in {1, 2, 4} THEN scen + 1 ELSE scen
       ELSE /\ Goto(OnRaise("AssertionError", AfterAssert(scen)))
            /\ UNCHANGED <<passed, scen>>
    /\ UNCHANGED <<artifact_path, f, pip_reqs, pip_cons, tmp, store, runStatus,
                   exitCode, events, Library>>

\* line 119: assert pip_cons == {sklearn_req}, pip_cons
AssertConstraints ==
    /\ pc = "assert_cons"
    /\ IF AssertCons(pip_cons)
       THEN /\ Goto(Continue("tmp_exit"))
            /\ passed' = passed \cup {scen}
       ELSE /\ Goto(OnRaise("AssertionError", "tmp_exit"))
            /\ UNCHANGED passed
    /\ UNCHANGED <<Locals, tmp, store, runStatus, exitCode, events, Library>>

\* lines 79, 104: with tempfile.NamedTemporaryFile("w", suffix=...) as f.
\* Creating the file may fail.
TmpOpen ==
    /\ pc = "tmp_open"
    /\ \E ioOk \in BOOLEAN :
        LET i == IF tmp[1].state = "none" THEN 1 ELSE 2
        IN  IF ioOk
            THEN /\ f' = i
                 /\ scen' = IF i = 1 THEN 4 ELSE 6
                 /\ tmp' = [tmp EXCEPT ![i] = TmpCreated]
                 /\ Goto(Continue("tmp_write"))
            ELSE /\ Goto(OnRaise("OSError", "tmp_write"))
                 /\ UNCHANGED <<f, scen, tmp>>
    /\ UNCHANGED <<artifact_path, pip_reqs, pip_cons, store, runStatus,
                   exitCode, events, passed, Library>>

\* lines 80, 105: f.write(sklearn_req)
TmpWrite ==
    /\ pc = "tmp_write"
    /\ tmp' = [tmp EXCEPT ![f] = TmpWritten(tmp[f], sklearn_req)]
    /\ Goto(Continue("tmp_flush"))
    /\ UNCHANGED <<Locals, store, runStatus, exitCode, events, passed, Library>>

\* lines 81, 106: f.flush().  When the file system refuses the write the
\* call raises OSError and the text stays in the buffer.
TmpFlush ==
    /\ pc = "tmp_flush"
    /\ \E ioOk \in BOOLEAN :
        IF ioOk
        THEN /\ tmp' = [tmp EXCEPT ![f] = TmpFlushed(tmp[f])]
             /\ Goto(Continue("log"))
        ELSE /\ Goto(OnRaise("OSError", "log"))
             /\ UNCHANGED tmp
    /\ UNCHANGED <<Locals, store, runStatus, exitCode, events, passed, Library>>

\* the end of a with block of lines 79, 104, reached after its last
\* statement or by an exception raised inside it: the file is closed, which
\* writes out what is still buffered, and then removed; a propagating
\* exception keeps propagating.  When text is still buffered and the write
\* fails, closing raises OSError and the file is not removed.
TmpExit ==
    /\ pc = "tmp_exit"
    /\ \E ioOk \in BOOLEAN :
        IF ioOk \/ tmp[f].buf = <<>>
        THEN /\ tmp' = [tmp EXCEPT ![f] = TmpRemoved(tmp[f])]
             /\ pc' = IF exc # "none" THEN "run_exit"
                      ELSE IF f = 1 THEN "tmp_open" ELSE "run_exit"
             /\ UNCHANGED exc
        ELSE /\ pc' = "run_exit"
             /\ exc' = "OSError"
             /\ UNCHANGED tmp
    /\ UNCHANGED <<Locals, store, runStatus, exitCode, events, passed,
                   Library>>

\* the end of the with block of line 46: the run is ended, as FAILED when
\* an exception leaves the block; there is no run to end when start_run
\* itself raised.  Ending the run is a library call: when it raises, the
\* status is not set and its exception is the one that leaves main().
RunExit ==
    /\ pc = "run_exit"
    /\ \E apiOk \in BOOLEAN :
        IF apiOk \/ runStatus # "RUNNING"
        THEN /\ runStatus' = IF runStatus # "RUNNING" THEN runStatus
                             ELSE IF exc = "none" THEN "FINISHED" ELSE "FAILED"
             /\ UNCHANGED exc
        ELSE /\ exc' = "MlflowException"
             /\ UNCHANGED runStatus
    /\ pc' = "return"
    /\ UNCHANGED <<Locals, tmp, store, exitCode, events, passed, Library>>

\* lines 122-123: main() returns or an exception reaches the top level.
\* A temporary file that outlived its with block is deleted while the
\* interpreter exits (the implicit close of the comment of lines 76-78).
ProcessExit ==
    /\ pc = "return"
    /\ exitCode' = ExitCode(exc)
    /\ tmp' = [i \in Files |-> IF tmp[i].state = "open" THEN TmpRemoved(tmp[i])
                                ELSE tmp[i]]
    /\ pc' = "exit"
    /\ UNCHANGED <<Locals, exc, store, runStatus, events, passed, Library>>

Next ==
    \/ StartRun
    \/ LogModel
    \/ GetPipRequirements
    \/ AssertRequirements
    \/ AssertConstraints
    \/ TmpOpen
    \/ TmpWrite
    \/ TmpFlush
    \/ TmpExit
    \/ RunExit
    \/ ProcessExit

Spec == Init /\ [][Next]_vars

(***************************************************************************)
(* The script with a library that keeps its contract on the defaults: the  *)
(* inferred default requirements include the framework's own version pin.  *)
(***************************************************************************)
ContractDefaults == {d \in DefaultChoices : xgb_req \in Range(d)}

ContractInit == Init /\ defaults \in ContractDefaults

ContractSpec == ContractInit /\ [][Next]_vars

(***************************************************************************)
(* The verifier alone, on any manifest text up to MaxLen characters: the   *)
(* store holds a record with that text and get_pip_requirements reads it.  *)
(***************************************************************************)
Alphabet == {xgb_req[1], sklearn_req[1], LF, CR, FF}

Texts == UNION {[1..n -> Alphabet] : n \in 0..MaxLen}

VerifierInit ==
    /\ pc = "get"
    /\ scen \in {1, 6}
    /\ artifact_path = ArtifactPath(scen)
    /\ f = 0
    /\ tmp = [i \in Files |-> NoFile]
    /\ pip_reqs = {}
    /\ pip_cons = {}
    /\ exc = "none"
    /\ runStatus = "RUNNING"
    /\ exitCode = -1
    /\ events = <<>>
    /\ passed = {}
    /\ defaults = <<>>
    /\ trailingNL = FALSE
    /\ \E t \in Texts :
        store = [p \in Paths |->
                   IF p = artifact_path
                   THEN [logged |-> TRUE, reqs |-> t, hasCons |-> scen = 6,
                         cons |-> IF scen = 6 THEN t ELSE <<>>]
                   ELSE Absent]

VerifierNext == GetPipRequirements

VerifierSpec == VerifierInit /\ [][VerifierNext]_vars

(***************************************************************************)
(* Properties.                                                             *)
(***************************************************************************)
\* the persisted requirements manifest of scenario s, read back as a set of
\* lines
Manifest(s) == Range(read_lines(store[ArtifactPath(s)].reqs))

\* the persisted constraints manifest of scenario s, read back likewise
Constraints(s) == Range(read_lines(store[ArtifactPath(s)].cons))

Logged(s) == store[ArtifactPath(s)].logged

\* the directive as the caller wrote it, naming temporary file i
RawDirective(flag, i) == <<flag, TmpName(i)>>

\* C1: once the model of scenario 'pip_requirements' is logged with the
\* explicit list [sklearn_req], the persisted requirements manifest, read
\* back as a set of lines, equals exactly {sklearn_req}: it holds neither
\* the framework pin nor any other default entry, whatever the defaults.
C1_ExactOverride ==
    Logged(2) =>
        /\ Manifest(2) = {sklearn_req}
        /\ xgb_req \notin Manifest(2)
        /\ \A l \in Range(defaults) \ {sklearn_req} : l \notin Manifest(2)

C1_Witness ==
    /\ 2 \in passed
    /\ pc = "log" /\ scen = 3
    /\ pip_reqs = {sklearn_req}
    /\ {xgb_req, other_req} \subseteq Manifest(1)

\* C2: once the model of scenario 'constraints_file' is logged with
\* [xgb_req, "-c <path>"], the requirements manifest holds the framework
\* pin and the line "-c constraints.txt", holds neither the caller's raw
\* "-c <path>" directive nor the lines of the referenced file, and the
\* constraints manifest exists and equals exactly {sklearn_req}.
C2_ConstraintsRouted ==
    Logged(6) =>
        /\ {xgb_req, canonical_c} \subseteq Manifest(6)
        /\ RawDirective("-c ", 2) \notin Manifest(6)
        /\ sklearn_req \notin Manifest(6)
        /\ store[ArtifactPath(6)].hasCons
        /\ Constraints(6) = {sklearn_req}

C2_Witness == 6 \in passed /\ pc = "exit" /\ canonical_c \in pip_reqs

\* C3: once the model of scenario 'extra_pip_requirements' is logged with
\* the extra list [sklearn_req], its manifest contains the framework pin
\* and the sklearn pin, and every entry of the manifest of scenario
\* 'default' is still in it.
C3_ExtraAddsToDefaults ==
    Logged(3) =>
        /\ {xgb_req, sklearn_req} \subseteq Manifest(3)
        /\ Manifest(1) \subseteq Manifest(3)

C3_Witness == 3 \in passed /\ other_req \in Manifest(3)

\* C4: once the model of scenario 'requirements_file_list' is logged with
\* [xgb_req, "-r <path>"], its manifest contains the framework pin and the
\* sklearn pin, although the list itself does not hold the sklearn pin (it
\* is in the referenced file only), and the raw "-r <path>" directive is
\* not in the manifest.
C4_RequirementsFileExpanded ==
    Logged(5) =>
        /\ {xgb_req, sklearn_req} \subseteq Manifest(5)
        /\ sklearn_req \notin Range(PipRequirements(5, TmpName(1)).items)
        /\ RawDirective("-r ", 1) \notin Manifest(5)

C4_Witness == 5 \in passed /\ sklearn_req \in pip_reqs /\ scen = 5

\* C5: once the model of scenario 'requirements_file_path' is logged with
\* the path of the temporary file as the explicit value, its manifest
\* contains the sklearn pin written to that file, and not the path.
C5_PathReadAsFile ==
    Logged(4) =>
        /\ PipRequirements(4, TmpName(1)).kind = "path"
        /\ sklearn_req \in Manifest(4)
        /\ <<TmpName(1)>> \notin Manifest(4)

C5_Witness == 4 \in passed /\ scen = 5 /\ pc = "log" /\ sklearn_req \in pip_reqs

\* C6: once the model of scenario 'default' is logged with neither an
\* explicit nor an extra list, its manifest holds the library's inferred
\* defaults and nothing else, and contains the framework pin; the
\* assertion of line 53 on it does not fail.  (With a library whose
\* inferred defaults include the framework pin: ContractSpec.)
C6_DefaultHasFrameworkPin ==
    /\ Logged(1) =>
            /\ xgb_req \in Manifest(1)
            /\ Manifest(1) = Range(defaults)
    /\ exc # "AssertionError"

C6_Witness ==
    /\ 1 \in passed
    /\ scen = 2 /\ pc = "log"
    /\ pip_reqs = {xgb_req, other_req, sklearn_req}
    /\ Manifest(1) = pip_reqs

Running == {"log", "get", "assert", "assert_cons", "tmp_open", "tmp_write",
            "tmp_flush"}

\* C7: a step that raises logs, downloads and passes nothing; once an
\* exception propagates one keeps propagating, no statement of a scenario
\* runs any more and nothing is logged, downloaded or passed; the process
\* ends with a non-zero exit code then, and with 0 only when all six
\* scenarios passed.
C7_FailureAbortsRun ==
    /\ [][(exc' # "none") =>
            /\ events' = events
            /\ store' = store
            /\ passed' = passed
            /\ pc' \notin Running]_vars
    /\ [][exc # "none" => exc' # "none"]_vars
    /\ [](pc = "exit" =>
            /\ (exitCode = 0 => passed = Scenarios)
            /\ (exitCode = 0 <=> exc = "none")
            /\ exitCode \in {0, 1})

C7_Witness ==
    /\ pc = "exit"
    /\ exc = "AssertionError"
    /\ exitCode = 1
    /\ passed = {}
    /\ Len(events) = 2

\* C8: whenever a logging call that references a temporary file is about
\* to run, that file exists with its content written and flushed; a file
\* is gone once control has left its with block, on every path, also when
\* it left by an exception: the first file before the second one is
\* created, both before the run ends.  (Fails: when f.flush() raised and
\* the closing write at the end of the with block fails too, the file is
\* left on disk until the interpreter exits.)
C8_TempFileScoped ==
    /\ (pc = "log" /\ ScopeOf(scen) # 0) =>
            /\ f = ScopeOf(scen)
            /\ tmp[f] = [state |-> "open", buf |-> <<>>, disk |-> sklearn_req]
    /\ \A e \in Range(events) :
            (e.op = "log" /\ ScopeOf(e.scen) # 0) =>
                tmp[ScopeOf(e.scen)].state \in {"open", "removed"}
    /\ (tmp[2].state # "none" \/ (pc = "tmp_open" /\ f = 1)) =>
            tmp[1].state = "removed"
    /\ pc \in {"run_exit", "return", "exit"} =>
            \A i \in Files : tmp[i].state \in {"none", "removed"}

\* whether a text has an empty line: a line boundary at its start or right
\* after another boundary, "\r\n" being one boundary
HasBlankLine(t) ==
    \E i \in 1..Len(t) :
        /\ t[i] \in Terminators
        /\ i = 1 \/ (t[i - 1] \in Terminators /\ ~(t[i - 1] = CR /\ t[i] = LF))

\* C9 as stated: the set get_pip_requirements returns never contains the
\* empty string, whatever the manifest text.
C9_NoEmptyLine ==
    pc = "assert" => (<<>> \notin pip_reqs /\ <<>> \notin pip_cons)

\* C9 amended: the set get_pip_requirements returns holds the lines of the
\* manifest under default line splitting, none of which contains a line
\* boundary; it contains the empty string exactly when the text has an
\* empty line, so a single trailing newline adds none but a blank line
\* does.
C9_DefaultLineSplitting ==
    pc = "assert" =>
        /\ \A l \in pip_reqs \cup pip_cons : Range(l) \cap Terminators = {}
        /\ (<<>> \in pip_reqs) <=> HasBlankLine(store[artifact_path].reqs)
        /\ ReturnConstraints(scen) =>
              ((<<>> \in pip_cons) <=> HasBlankLine(store[artifact_path].cons))

C9_Witness ==
    /\ pc = "assert"
    /\ store[artifact_path].reqs = <<xgb_req[1], LF, LF, sklearn_req[1]>>
    /\ pip_reqs = {xgb_req, <<>>, sklearn_req}

\* C10: the logging calls made so far went to pairwise distinct artifact
\* paths of the one running run, every download directly follows the
\* logging call of the same scenario and path, and a record, once logged,
\* is never changed by a later step.
C10_RecordsWrittenOnce ==
    /\ [](/\ Cardinality(Paths) = Cardinality(Scenarios)
          /\ \A i, j \in 1..Len(events) :
                (i < j /\ events[i].op = "log" /\ events[j].op = "log") =>
                    events[i].path # events[j].path
          /\ \A j \in 1..Len(events) :
                events[j].op = "get" =>
                    /\ j > 1
                    /\ events[j - 1] = [events[j] EXCEPT !.op = "log"]
          /\ (events # <<>> /\ pc \in Running) => runStatus = "RUNNING")
    /\ [][\A p \in Paths : store[p].logged => store'[p] = store[p]]_vars

C10_Witness == pc = "exit" /\ Len(events) = 12 /\ \A s \in Scenarios : Logged(s)

====
